---- MODULE Spec2Model ----
(***************************************************************************)
(* Model of the peer-to-peer network engine of avail-light-bootstrap:      *)
(* the EventLoop of src/network/event_loop.rs (swarm events, commands,     *)
(* periodic bootstrap timer) and the Client of src/network/client.rs.      *)
(*                                                                         *)
(* Spec         the engine against every sequence of commands, swarm       *)
(*              events and timer ticks (commands of the environment)       *)
(* ClientSpec   the engine together with callers of Client::bootstrap      *)
(* IdentifySpec the routing table under identify messages, closed          *)
(*              connections and dial errors of every kind                  *)
(* LifeSpec     the Client handles and the engine up to the end of both    *)
(* QueueSpec    one handle with several commands queued, and calls dropped *)
(*              before their answer                                        *)
(* AddrSpec     AddAddress commands and the routing updates that           *)
(*              acknowledge them, among the other commands                 *)
(* TypesSpec    the functions network_name and is_supported of             *)
(*              src/types.rs, each applied to one input                    *)
(***************************************************************************)
EXTENDS Integers, Sequences, FiniteSets, TLC

\* ---- bounds of the model ----
NumClients == 2       \* concurrent callers of a Client method (ClientSpec)
NumPeers == 1         \* remote peers
MaxQueries == 2       \* bootstrap queries the DHT starts
MaxCommands == 2      \* commands the environment sends (Spec)
NumHandles == 1       \* Client handles that exist at the start (LifeSpec)
MaxHashLen == 7       \* characters of a genesis hash that is not a known one
MaxParts == 4         \* components of a version string

Clients == 1 .. NumClients
Peers == 1 .. NumPeers
\* the clients that hold a Client handle in LifeSpec
Handles == {c \in Clients : c <= NumHandles}
QueryIds == 1 .. MaxQueries

\* Option::None of a PeerId and of a QueryId
NoPeer == 0
NoQuery == 0

\* swarm.local_peer_id(), the only key of pending_swarm_events
LocalPeerId == "local_peer_id"

\* bootstrap() creates up to three oneshot channels, one per command
ChansPerCall == 3
\* the sender of the commands of Spec
Env == 0
ChanIds == (Clients \X (1 .. ChansPerCall)) \cup ({Env} \X (1 .. MaxCommands))
NoChan == <<Env, 0>>

\* the kinds of listen address an identify message can carry: with a /p2p/
\* segment naming the sender, with one naming another peer, with none
AddrKinds == {"p2p_same", "p2p_other", "no_p2p"}
\* the routing table has no entry for the peer
Absent == {"absent"}

VARIABLES
    command_queue,        \* mpsc channel Client -> EventLoop
    chan,                 \* the oneshot channels: sends, value, sender dropped,
                          \* receiver dropped (closed)
    nch,                  \* per sender: oneshot channels created so far
    pc,                   \* per client: where its method call stands
    cur,                  \* per client: the channel it is awaiting
    result,               \* per client: what its method call returned
    sent,                 \* per client: the commands its method call sent
    counted_peers,        \* per client: the count its bootstrap() call read
    running,              \* the run loop has not returned
    routing,              \* the DHT routing table (kademlia k-buckets)
    queries,              \* bootstrap queries the DHT has in progress
    next_query,           \* the next QueryId the DHT hands out
    queued_events,        \* peers with a RoutingUpdated event queued in the DHT
    pending_kad_queries,
    pending_kad_routing,
    pending_swarm_events,
    is_startup_done,      \* bootstrap.is_startup_done
    last,                 \* the step taken last (history)
    call                  \* a call of a function of src/types.rs: argument, result

pending == <<pending_kad_queries, pending_kad_routing, pending_swarm_events>>
engine == <<routing, queries, next_query, queued_events, pending, is_startup_done, running>>
clients == <<nch, pc, cur, result, sent, counted_peers>>
vars == <<command_queue, chan, clients, engine, last, call>>

\* no function of src/types.rs is being called
NoCall == [fn |-> "none", arg |-> <<>>, done |-> FALSE, panic |-> FALSE, val |-> <<>>]

\* ---- HashMap ----
\* insert returns the value it replaces, which is then dropped
Insert(m, k, v) == [x \in DOMAIN m \cup {k} |-> IF x = k THEN v ELSE m[x]]
Replaced(m, k) == {m[x] : x \in DOMAIN m \cap {k}}
Remove(m, k) == [x \in DOMAIN m \ {k} |-> m[x]]
EmptyMap == [x \in {} |-> NoChan]
Values(m) == {m[x] : x \in DOMAIN m}

\* the senders the engine keeps in its pending maps
PendingChans ==
    Values(pending_kad_queries) \cup Values(pending_kad_routing) \cup Values(pending_swarm_events)

\* ---- oneshot channels ----
NewChan ==
    [n |-> 0, val |-> "none", num |-> -1, data |-> {}, dropped |-> FALSE, closed |-> FALSE]

\* oneshot::Sender::send: the value reaches the receiver, or the send fails
\* because the receiver was dropped; the engine ignores the failure (_ =)
Send(ch, v, num, data) ==
    IF chan[ch].closed
    THEN chan
    ELSE [chan EXCEPT ![ch] = [n |-> @.n + 1, val |-> v, num |-> num, data |-> data,
                               dropped |-> @.dropped, closed |-> @.closed]]

\* Senders that are dropped without a send
DropSenders(chs) ==
    [x \in DOMAIN chan |-> IF x \in chs THEN [chan[x] EXCEPT !.dropped = TRUE] ELSE chan[x]]

\* the receiver's await returns: a value arrived, or the sender is gone
Ready(ch) == chan[ch].n > 0 \/ chan[ch].dropped
Received(ch) == IF chan[ch].n > 0 THEN chan[ch].val ELSE "RecvError"
\* the await took the value and the receiver is gone
Taken(ch) ==
    [chan EXCEPT ![ch] = [n |-> @.n, val |-> "taken", num |-> -1, data |-> {},
                          dropped |-> @.dropped, closed |-> @.closed]]

Step(kind, ch, id, peer, arg) ==
    [kind |-> kind, ch |-> ch, id |-> id, peer |-> peer, arg |-> arg]
\* the history is kept where the initial state starts it
Untraced == Step("untraced", NoChan, NoQuery, NoPeer, "")
Record(step) ==
    /\ last' = IF last = Untraced THEN last ELSE step
    /\ UNCHANGED call

\* ---- the routing table ----
KnownPeers(rt) == {p \in DOMAIN rt : rt[p] # Absent}
\* kademlia.remove_peer(peer)
remove_peer(rt, p) == [rt EXCEPT ![p] = Absent]
\* kademlia.bootstrap() fails with NoKnownPeers on an empty routing table
BootstrapPossible(rt) == KnownPeers(rt) # {}

\* ---- the end of the engine ----
\* the EventLoop value is dropped: the command receiver with the commands
\* still queued, the pending maps with their senders, and the swarm with its
\* routing table and queries
Terminate(kind) ==
    /\ running' = FALSE
    /\ chan' = DropSenders(PendingChans
                            \cup {command_queue[i].ch : i \in DOMAIN command_queue})
    /\ command_queue' = <<>>
    /\ pending_kad_queries' = EmptyMap
    /\ pending_kad_routing' = EmptyMap
    /\ pending_swarm_events' = EmptyMap
    /\ routing' = [p \in Peers |-> Absent]
    /\ queries' = {}
    /\ next_query' = 1
    /\ queued_events' = {}
    /\ is_startup_done' = FALSE
    /\ last' = Step(kind, NoChan, NoQuery, NoPeer,
                    IF PendingChans # {} THEN "pending" ELSE "idle")
    /\ UNCHANGED <<clients, call>>

Init ==
    /\ command_queue = <<>>
    /\ chan = [x \in ChanIds |-> NewChan]
    /\ nch = [c \in Clients \cup {Env} |-> 0]
    /\ pc = [c \in Clients |-> "start"]
    /\ cur = [c \in Clients |-> NoChan]
    /\ result = [c \in Clients |-> "none"]
    /\ sent = [c \in Clients |-> <<>>]
    /\ counted_peers = [c \in Clients |-> -1]
    /\ running = TRUE
    /\ routing = [p \in Peers |-> Absent]
    /\ queries = {}
    /\ next_query = 1
    /\ queued_events = {}
    /\ pending_kad_queries = EmptyMap
    /\ pending_kad_routing = EmptyMap
    /\ pending_swarm_events = EmptyMap
    /\ is_startup_done = FALSE
    /\ last = Step("init", NoChan, NoQuery, NoPeer, "")
    /\ call = NoCall

\* the same state, without the history of steps
ClientInit ==
    /\ command_queue = <<>>
    /\ chan = [x \in ChanIds |-> NewChan]
    /\ nch = [c \in Clients \cup {Env} |-> 0]
    /\ pc = [c \in Clients |-> "start"]
    /\ cur = [c \in Clients |-> NoChan]
    /\ result = [c \in Clients |-> "none"]
    /\ sent = [c \in Clients |-> <<>>]
    /\ counted_peers = [c \in Clients |-> -1]
    /\ running = TRUE
    /\ routing = [p \in Peers |-> Absent]
    /\ queries = {}
    /\ next_query = 1
    /\ queued_events = {}
    /\ pending_kad_queries = EmptyMap
    /\ pending_kad_routing = EmptyMap
    /\ pending_swarm_events = EmptyMap
    /\ is_startup_done = FALSE
    /\ last = Untraced
    /\ call = NoCall

\* ---------------------------------------------------------------------
\* Client (src/network/client.rs); a client is one caller of one method
\* ---------------------------------------------------------------------
FreshChan(c) == <<c, nch[c] + 1>>

Command(kind, ch, addr) == [kind |-> kind, ch |-> ch, addr |-> addr]

\* the method returns r to its caller
Return(c, r) ==
    /\ pc' = [pc EXCEPT ![c] = "returned"]
    /\ cur' = [cur EXCEPT ![c] = NoChan]
    /\ result' = [result EXCEPT ![c] = r]

\* a send that does not notice that the receiver of the commands is gone
SendCommand_unchecked(c, kind, addr, await) ==
    /\ command_queue' = Append(command_queue, Command(kind, FreshChan(c), addr))
    /\ nch' = [nch EXCEPT ![c] = @ + 1]
    /\ cur' = [cur EXCEPT ![c] = FreshChan(c)]
    /\ pc' = [pc EXCEPT ![c] = await]
    /\ sent' = [sent EXCEPT ![c] = Append(@, kind)]
    /\ UNCHANGED result

\* oneshot::channel() followed by command_sender.send(..).await?: the command
\* is queued, or the send fails because the receiver is gone
SendCommand(c, kind, addr, await) ==
    IF running
    THEN /\ command_queue' = Append(command_queue, Command(kind, FreshChan(c), addr))
         /\ nch' = [nch EXCEPT ![c] = @ + 1]
         /\ cur' = [cur EXCEPT ![c] = FreshChan(c)]
         /\ pc' = [pc EXCEPT ![c] = await]
         /\ sent' = [sent EXCEPT ![c] = Append(@, kind)]
         /\ UNCHANGED result
    ELSE /\ Return(c, "SendError")
         /\ UNCHANGED <<command_queue, nch, sent>>

\* response_receiver.await.context(..) of the last command of a method
AwaitResponse(c, await) ==
    /\ pc[c] = await
    /\ Ready(cur[c])
    /\ Return(c, Received(cur[c]))
    /\ chan' = Taken(cur[c])
    /\ UNCHANGED <<command_queue, nch, sent, counted_peers, engine>>

start_listening(c, addr) ==
    /\ pc[c] = "start"
    /\ SendCommand(c, "StartListening", addr, "await_listen")
    /\ Record(Step("start_listening", FreshChan(c), NoQuery, NoPeer, addr))
    /\ UNCHANGED <<chan, counted_peers, engine>>

start_listening_response(c) ==
    /\ AwaitResponse(c, "await_listen")
    /\ Record(Step("start_listening_response", cur[c], NoQuery, NoPeer, ""))

\* bootstrap(): count the entries of the DHT
bootstrap(c) ==
    /\ pc[c] = "start"
    /\ SendCommand(c, "GetDHTEntries", "", "await_count")
    /\ Record(Step("bootstrap", FreshChan(c), NoQuery, NoPeer, ""))
    /\ UNCHANGED <<chan, counted_peers, engine>>

\* a bootstrap() that goes on to the Bootstrap command whatever the count
bootstrap_counted_nowait(c) ==
    /\ pc[c] = "await_count"
    /\ Ready(cur[c])
    /\ IF chan[cur[c]].n = 0
       THEN /\ Return(c, "RecvError")
            /\ UNCHANGED <<command_queue, nch, sent, counted_peers>>
       ELSE /\ counted_peers' = [counted_peers EXCEPT ![c] = Cardinality(chan[cur[c]].data)]
            /\ SendCommand(c, "Bootstrap", "", "await_boot")
    /\ chan' = Taken(cur[c])
    /\ Record(Step("bootstrap_counted", cur[c], NoQuery, NoPeer, ""))
    /\ UNCHANGED engine

\* bootstrap(): count_res_receiver.await?.len() arrived; with no peer counted
\* send WaitIncomingConnection, else go on to the Bootstrap command
bootstrap_counted(c) ==
    /\ pc[c] = "await_count"
    /\ Ready(cur[c])
    /\ IF chan[cur[c]].n = 0
       THEN /\ Return(c, "RecvError")
            /\ UNCHANGED <<command_queue, nch, sent, counted_peers>>
       ELSE /\ counted_peers' = [counted_peers EXCEPT ![c] = Cardinality(chan[cur[c]].data)]
            /\ IF Cardinality(chan[cur[c]].data) < 1
               THEN SendCommand(c, "WaitIncomingConnection", "", "await_conn")
               ELSE SendCommand(c, "Bootstrap", "", "await_boot")
    /\ chan' = Taken(cur[c])
    /\ Record(Step("bootstrap_counted", cur[c], NoQuery, NoPeer, ""))
    /\ UNCHANGED engine

\* bootstrap(): connection_res_receiver.await? returned
bootstrap_connected(c) ==
    /\ pc[c] = "await_conn"
    /\ Ready(cur[c])
    /\ IF chan[cur[c]].n = 0
       THEN /\ Return(c, "RecvError")
            /\ UNCHANGED <<command_queue, nch, sent>>
       ELSE SendCommand(c, "Bootstrap", "", "await_boot")
    /\ chan' = Taken(cur[c])
    /\ Record(Step("bootstrap_connected", cur[c], NoQuery, NoPeer, ""))
    /\ UNCHANGED <<counted_peers, engine>>

\* bootstrap(): boot_res_receiver.await returned
bootstrap_response(c) ==
    /\ AwaitResponse(c, "await_boot")
    /\ Record(Step("bootstrap_response", cur[c], NoQuery, NoPeer, ""))

get_dht_entries(c) ==
    /\ pc[c] = "start"
    /\ SendCommand(c, "GetDHTEntries", "", "await_entries")
    /\ Record(Step("get_dht_entries", FreshChan(c), NoQuery, NoPeer, ""))
    /\ UNCHANGED <<chan, counted_peers, engine>>

get_dht_entries_response(c) ==
    /\ AwaitResponse(c, "await_entries")
    /\ Record(Step("get_dht_entries_response", cur[c], NoQuery, NoPeer, ""))

\* ---------------------------------------------------------------------
\* EventLoop::handle_command (src/network/event_loop.rs)
\* ---------------------------------------------------------------------
\* swarm.listen_on(addr): Ok for an address the transport can listen on
cmd_start_listening(cmd) ==
    /\ chan' = IF cmd.addr = "valid"
               THEN Send(cmd.ch, "Ok", -1, {})
               ELSE Send(cmd.ch, "ListenErr", -1, {})
    /\ Record(Step("StartListening", cmd.ch, NoQuery, NoPeer, cmd.addr))
    /\ UNCHANGED engine

\* kademlia.bootstrap() returned Ok(query_id): the DHT runs a new query
StartQuery ==
    /\ next_query <= MaxQueries
    /\ queries' = queries \cup {next_query}
    /\ next_query' = next_query + 1

\* a Bootstrap handler that keeps the sender of a failed attempt unanswered
cmd_bootstrap_silent(cmd) ==
    /\ IF BootstrapPossible(routing)
       THEN /\ StartQuery
            /\ pending_kad_queries' = Insert(pending_kad_queries, next_query, cmd.ch)
            /\ chan' = DropSenders(Replaced(pending_kad_queries, next_query))
            /\ Record(Step("Bootstrap", cmd.ch, next_query, NoPeer, "Ok"))
       ELSE /\ chan' = DropSenders({cmd.ch})
            /\ Record(Step("Bootstrap", cmd.ch, NoQuery, NoPeer, "Err"))
            /\ UNCHANGED <<queries, next_query, pending_kad_queries>>
    /\ UNCHANGED <<routing, pending_kad_routing, pending_swarm_events,
                   is_startup_done, queued_events, running>>

\* a Bootstrap handler that answers Ok as soon as the query is started
cmd_bootstrap_eager(cmd) ==
    /\ IF BootstrapPossible(routing)
       THEN /\ StartQuery
            /\ pending_kad_queries' = Insert(pending_kad_queries, next_query, cmd.ch)
            /\ chan' = Send(cmd.ch, "Ok", -1, {})
            /\ Record(Step("Bootstrap", cmd.ch, next_query, NoPeer, "Ok"))
       ELSE /\ chan' = Send(cmd.ch, "NoKnownPeers", -1, {})
            /\ Record(Step("Bootstrap", cmd.ch, NoQuery, NoPeer, "Err"))
            /\ UNCHANGED <<queries, next_query, pending_kad_queries>>
    /\ UNCHANGED <<routing, pending_kad_routing, pending_swarm_events,
                   is_startup_done, queued_events, running>>

\* kademlia.bootstrap(): Ok(query_id) registers the sender under the query;
\* Err (no known peers) is sent back at once
cmd_bootstrap(cmd) ==
    /\ IF BootstrapPossible(routing)
       THEN /\ StartQuery
            /\ pending_kad_queries' = Insert(pending_kad_queries, next_query, cmd.ch)
            /\ chan' = DropSenders(Replaced(pending_kad_queries, next_query))
            /\ Record(Step("Bootstrap", cmd.ch, next_query, NoPeer, "Ok"))
       ELSE /\ chan' = Send(cmd.ch, "NoKnownPeers", -1, {})
            /\ Record(Step("Bootstrap", cmd.ch, NoQuery, NoPeer, "Err"))
            /\ UNCHANGED <<queries, next_query, pending_kad_queries>>
    /\ UNCHANGED <<routing, pending_kad_routing, pending_swarm_events,
                   is_startup_done, queued_events, running>>

\* a WaitIncomingConnection handler that remembers the inbound connections of
\* the past and answers at once when there was one
cmd_wait_incoming_connection_connected(cmd) ==
    /\ IF \E ch \in ChanIds : chan[ch].val = "Unit"
       THEN /\ chan' = Send(cmd.ch, "Unit", -1, {})
            /\ UNCHANGED pending_swarm_events
       ELSE /\ pending_swarm_events' = Insert(pending_swarm_events, LocalPeerId, cmd.ch)
            /\ chan' = DropSenders(Replaced(pending_swarm_events, LocalPeerId))
    /\ Record(Step("WaitIncomingConnection", cmd.ch, NoQuery, NoPeer, ""))
    /\ UNCHANGED <<routing, queries, next_query, pending_kad_queries,
                   pending_kad_routing, is_startup_done, queued_events, running>>

\* pending_swarm_events.insert(local_peer_id, sender): the sender a previous
\* WaitIncomingConnection left under the key is replaced and dropped
cmd_wait_incoming_connection(cmd) ==
    /\ pending_swarm_events' = Insert(pending_swarm_events, LocalPeerId, cmd.ch)
    /\ chan' = DropSenders(Replaced(pending_swarm_events, LocalPeerId))
    /\ Record(Step("WaitIncomingConnection", cmd.ch, NoQuery, NoPeer, ""))
    /\ UNCHANGED <<routing, queries, next_query, pending_kad_queries,
                   pending_kad_routing, is_startup_done, queued_events, running>>

\* a CountDHTPeers handler that parks its sender instead of answering
cmd_count_dht_peers_parked(cmd) ==
    /\ pending_swarm_events' = Insert(pending_swarm_events, LocalPeerId, cmd.ch)
    /\ chan' = DropSenders(Replaced(pending_swarm_events, LocalPeerId))
    /\ Record(Step("CountDHTPeers", cmd.ch, NoQuery, NoPeer, ""))
    /\ UNCHANGED <<routing, queries, next_query, pending_kad_queries,
                   pending_kad_routing, is_startup_done, queued_events, running>>

\* total_peers: the sum of num_entries() over the k-buckets
cmd_count_dht_peers(cmd) ==
    /\ chan' = Send(cmd.ch, "Count", Cardinality(KnownPeers(routing)), {})
    /\ Record(Step("CountDHTPeers", cmd.ch, NoQuery, NoPeer, ""))
    /\ UNCHANGED engine

\* swarm.external_addresses().last().cloned(); the swarm holds addrs
cmd_get_multiaddress(cmd, addrs) ==
    /\ chan' = IF addrs = <<>>
               THEN Send(cmd.ch, "None", -1, {})
               ELSE Send(cmd.ch, "Some", -1, {addrs[Len(addrs)]})
    /\ Record(Step("GetMultiaddress", cmd.ch, NoQuery, NoPeer, ""))
    /\ UNCHANGED engine

\* GetDHTEntries: the entries of the routing table, read synchronously
cmd_get_dht_entries(cmd) ==
    /\ chan' = Send(cmd.ch, "Entries", -1, KnownPeers(routing))
    /\ Record(Step("GetDHTEntries", cmd.ch, NoQuery, NoPeer, ""))
    /\ UNCHANGED engine

\* AddAddress(peer, addr): kademlia.add_address(peer, addr) and the sender
\* parked under the peer until the routing update is acknowledged. The DHT
\* queues a RoutingUpdated event when the call has changed the entry of the
\* peer: it queues none for an address the entry already holds
cmd_add_address(cmd) ==
    LET peer == cmd.addr[1]
        addr == cmd.addr[2]
    IN  /\ routing' = [routing EXCEPT ![peer] = IF @ = Absent THEN {addr} ELSE @ \cup {addr}]
        /\ queued_events' = IF addr \in routing[peer]
                             THEN queued_events
                             ELSE queued_events \cup {peer}
        /\ pending_kad_routing' = Insert(pending_kad_routing, peer, cmd.ch)
        /\ chan' = DropSenders(Replaced(pending_kad_routing, peer))
        /\ Record(Step("AddAddress", cmd.ch, NoQuery, peer,
                        IF addr \in routing[peer] THEN "known" ELSE "new"))
        /\ UNCHANGED <<queries, next_query, pending_kad_queries, pending_swarm_events,
                       is_startup_done, running>>

ExternalAddresses == {<<>>, <<"addr1", "addr2">>}

handle_command(cmd) ==
    /\ running
    /\ CASE cmd.kind = "StartListening" -> cmd_start_listening(cmd)
         [] cmd.kind = "Bootstrap" -> cmd_bootstrap(cmd)
         [] cmd.kind = "WaitIncomingConnection" -> cmd_wait_incoming_connection(cmd)
         [] cmd.kind = "CountDHTPeers" -> cmd_count_dht_peers(cmd)
         [] cmd.kind = "GetMultiaddress" ->
                \E addrs \in ExternalAddresses : cmd_get_multiaddress(cmd, addrs)
         [] cmd.kind = "GetDHTEntries" -> cmd_get_dht_entries(cmd)
         [] cmd.kind = "AddAddress" -> cmd_add_address(cmd)

\* ---------------------------------------------------------------------
\* EventLoop::handle_periodic_bootstraps
\* ---------------------------------------------------------------------
TickStep(id) == Step("Tick", NoChan, id, NoPeer, IF is_startup_done THEN "done" ELSE "startup")

\* a timer handler without the check of is_startup_done
handle_periodic_bootstraps_unguarded ==
    /\ running
    /\ IF BootstrapPossible(routing)
       THEN StartQuery /\ Record(TickStep(next_query))
       ELSE UNCHANGED <<queries, next_query>> /\ Record(TickStep(NoQuery))
    /\ UNCHANGED <<command_queue, chan, clients, routing, pending, is_startup_done, queued_events, running>>

\* a timer handler that registers its query like a Bootstrap command does
handle_periodic_bootstraps_pending ==
    /\ running
    /\ IF is_startup_done
       THEN IF BootstrapPossible(routing)
            THEN /\ StartQuery
                 /\ Record(TickStep(next_query))
                 /\ pending_kad_queries' = Insert(pending_kad_queries, next_query, NoChan)
            ELSE /\ UNCHANGED <<queries, next_query, pending_kad_queries>>
                 /\ Record(TickStep(NoQuery))
       ELSE UNCHANGED <<queries, next_query, pending_kad_queries>> /\ Record(TickStep(NoQuery))
    /\ UNCHANGED <<command_queue, chan, clients, routing, pending_kad_routing,
                   pending_swarm_events, is_startup_done, queued_events, running>>

\* if is_startup_done { _ = kademlia.bootstrap() }: the query id and the
\* error are both discarded
handle_periodic_bootstraps ==
    /\ running
    /\ IF is_startup_done
       THEN IF BootstrapPossible(routing)
            THEN StartQuery /\ Record(TickStep(next_query))
            ELSE UNCHANGED <<queries, next_query>> /\ Record(TickStep(NoQuery))
       ELSE UNCHANGED <<queries, next_query>> /\ Record(TickStep(NoQuery))
    /\ UNCHANGED <<command_queue, chan, clients, routing, pending, is_startup_done, queued_events, running>>

\* ---------------------------------------------------------------------
\* EventLoop::handle_event
\* ---------------------------------------------------------------------
\* a RoutingUpdated handler that bootstraps again as soon as a peer is known
ev_routing_updated_retry(peer, addr) ==
    /\ running
    /\ routing' = [routing EXCEPT ![peer] = IF @ = Absent THEN {addr} ELSE @ \cup {addr}]
    /\ IF next_query <= MaxQueries
       THEN StartQuery
       ELSE UNCHANGED <<queries, next_query>>
    /\ IF peer \in DOMAIN pending_kad_routing
       THEN /\ pending_kad_routing' = Remove(pending_kad_routing, peer)
            /\ chan' = Send(pending_kad_routing[peer], "Ok", -1, {})
            /\ Record(Step("RoutingUpdated", pending_kad_routing[peer], NoQuery, peer, ""))
       ELSE /\ UNCHANGED <<pending_kad_routing, chan>>
            /\ Record(Step("RoutingUpdated", NoChan, NoQuery, peer, ""))
    /\ UNCHANGED <<command_queue, clients, pending_kad_queries,
                   pending_swarm_events, is_startup_done, running>>
    /\ queued_events' = queued_events \ {peer}

\* a RoutingUpdated handler that completes whichever add-address entry it finds
ev_routing_updated_any(peer, addr) ==
    /\ running
    /\ routing' = [routing EXCEPT ![peer] = IF @ = Absent THEN {addr} ELSE @ \cup {addr}]
    /\ IF pending_kad_routing # EmptyMap
       THEN \E q \in DOMAIN pending_kad_routing :
                /\ pending_kad_routing' = Remove(pending_kad_routing, q)
                /\ chan' = Send(pending_kad_routing[q], "Ok", -1, {})
                /\ Record(Step("RoutingUpdated", pending_kad_routing[q], NoQuery, peer, ""))
       ELSE /\ UNCHANGED <<pending_kad_routing, chan>>
            /\ Record(Step("RoutingUpdated", NoChan, NoQuery, peer, ""))
    /\ UNCHANGED <<command_queue, clients, queries, next_query, pending_kad_queries,
                   pending_swarm_events, is_startup_done, running>>
    /\ queued_events' = queued_events \ {peer}

\* KademliaEvent::RoutingUpdated { peer, addresses }: the DHT has put the peer
\* into its routing table, or refreshed its entry, with the address addr; an
\* event it had queued for the peer is this one
ev_routing_updated(peer, addr) ==
    /\ running
    /\ routing' = [routing EXCEPT ![peer] = IF @ = Absent THEN {addr} ELSE @ \cup {addr}]
    /\ IF peer \in DOMAIN pending_kad_routing
       THEN /\ pending_kad_routing' = Remove(pending_kad_routing, peer)
            /\ chan' = Send(pending_kad_routing[peer], "Ok", -1, {})
            /\ Record(Step("RoutingUpdated", pending_kad_routing[peer], NoQuery, peer, ""))
       ELSE /\ UNCHANGED <<pending_kad_routing, chan>>
            /\ Record(Step("RoutingUpdated", NoChan, NoQuery, peer, ""))
    /\ UNCHANGED <<command_queue, clients, queries, next_query, pending_kad_queries,
                   pending_swarm_events, is_startup_done, running>>
    /\ queued_events' = queued_events \ {peer}

\* a BootstrapOk handler that forgets the startup flag
ev_bootstrap_ok_noflag(id, num_remaining) ==
    /\ running
    /\ id \in queries
    /\ queries' = IF num_remaining = 0 THEN queries \ {id} ELSE queries
    /\ IF num_remaining = 0 /\ id \in DOMAIN pending_kad_queries
       THEN /\ pending_kad_queries' = Remove(pending_kad_queries, id)
            /\ chan' = Send(pending_kad_queries[id], "Ok", -1, {})
            /\ Record(Step("BootstrapOk", pending_kad_queries[id], id, NoPeer, "last"))
       ELSE /\ UNCHANGED <<pending_kad_queries, chan>>
            /\ Record(Step("BootstrapOk", NoChan, id, NoPeer,
                            IF num_remaining = 0 THEN "last" ELSE "more"))
    /\ UNCHANGED <<command_queue, clients, routing, next_query, pending_kad_routing,
                   pending_swarm_events, is_startup_done, queued_events, running>>

\* a BootstrapOk handler that sets the startup flag at the end of every query
ev_bootstrap_ok_flag_any(id, num_remaining) ==
    /\ running
    /\ id \in queries
    /\ queries' = IF num_remaining = 0 THEN queries \ {id} ELSE queries
    /\ is_startup_done' = (is_startup_done \/ num_remaining = 0)
    /\ IF num_remaining = 0 /\ id \in DOMAIN pending_kad_queries
       THEN /\ pending_kad_queries' = Remove(pending_kad_queries, id)
            /\ chan' = Send(pending_kad_queries[id], "Ok", -1, {})
            /\ Record(Step("BootstrapOk", pending_kad_queries[id], id, NoPeer, "last"))
       ELSE /\ UNCHANGED <<pending_kad_queries, chan>>
            /\ Record(Step("BootstrapOk", NoChan, id, NoPeer,
                            IF num_remaining = 0 THEN "last" ELSE "more"))
    /\ UNCHANGED <<command_queue, clients, routing, next_query, pending_kad_routing,
                   pending_swarm_events, queued_events, running>>

\* a BootstrapOk handler that completes the caller at the first success event
ev_bootstrap_ok_first(id, num_remaining) ==
    /\ running
    /\ id \in queries
    /\ queries' = IF num_remaining = 0 THEN queries \ {id} ELSE queries
    /\ IF id \in DOMAIN pending_kad_queries
       THEN /\ pending_kad_queries' = Remove(pending_kad_queries, id)
            /\ chan' = Send(pending_kad_queries[id], "Ok", -1, {})
            /\ is_startup_done' = TRUE
            /\ Record(Step("BootstrapOk", pending_kad_queries[id], id, NoPeer,
                            IF num_remaining = 0 THEN "last" ELSE "more"))
       ELSE /\ UNCHANGED <<pending_kad_queries, chan, is_startup_done>>
            /\ Record(Step("BootstrapOk", NoChan, id, NoPeer,
                            IF num_remaining = 0 THEN "last" ELSE "more"))
    /\ UNCHANGED <<command_queue, clients, routing, next_query, pending_kad_routing,
                   pending_swarm_events, queued_events, running>>

\* a BootstrapOk handler that takes the startup for done only if its caller
\* got the answer
ev_bootstrap_ok_checked(id, num_remaining) ==
    /\ running
    /\ id \in queries
    /\ queries' = IF num_remaining = 0 THEN queries \ {id} ELSE queries
    /\ IF num_remaining = 0 /\ id \in DOMAIN pending_kad_queries
       THEN /\ pending_kad_queries' = Remove(pending_kad_queries, id)
            /\ chan' = Send(pending_kad_queries[id], "Ok", -1, {})
            /\ is_startup_done' = (is_startup_done \/ ~chan[pending_kad_queries[id]].closed)
            /\ Record(Step("BootstrapOk", pending_kad_queries[id], id, NoPeer, "last"))
       ELSE /\ UNCHANGED <<pending_kad_queries, chan, is_startup_done>>
            /\ Record(Step("BootstrapOk", NoChan, id, NoPeer,
                            IF num_remaining = 0 THEN "last" ELSE "more"))
    /\ UNCHANGED <<command_queue, clients, routing, next_query, pending_kad_routing,
                   pending_swarm_events, queued_events, running>>

\* OutboundQueryProgressed { id, result: Bootstrap(Ok(BootstrapOk { num_remaining })) }
\* the event with num_remaining = 0 is the last one of the query
ev_bootstrap_ok(id, num_remaining) ==
    /\ running
    /\ id \in queries
    /\ queries' = IF num_remaining = 0 THEN queries \ {id} ELSE queries
    /\ IF num_remaining = 0 /\ id \in DOMAIN pending_kad_queries
       THEN /\ pending_kad_queries' = Remove(pending_kad_queries, id)
            /\ chan' = Send(pending_kad_queries[id], "Ok", -1, {})
            /\ is_startup_done' = TRUE
            /\ Record(Step("BootstrapOk", pending_kad_queries[id], id, NoPeer, "last"))
       ELSE /\ UNCHANGED <<pending_kad_queries, chan, is_startup_done>>
            /\ Record(Step("BootstrapOk", NoChan, id, NoPeer,
                            IF num_remaining = 0 THEN "last" ELSE "more"))
    /\ UNCHANGED <<command_queue, clients, routing, next_query, pending_kad_routing,
                   pending_swarm_events, queued_events, running>>

\* a Bootstrap error handler that reads the entry (get) and leaves it in the map
ev_bootstrap_err_keep(id, is_last) ==
    /\ running
    /\ id \in queries
    /\ queries' = IF is_last THEN queries \ {id} ELSE queries
    /\ IF id \in DOMAIN pending_kad_queries
       THEN /\ chan' = Send(pending_kad_queries[id], "QueryErr", -1, {})
            /\ Record(Step("BootstrapErr", pending_kad_queries[id], id, NoPeer, ""))
       ELSE /\ UNCHANGED chan
            /\ Record(Step("BootstrapErr", NoChan, id, NoPeer, ""))
    /\ UNCHANGED <<command_queue, clients, routing, next_query, pending, is_startup_done,
                   queued_events, running>>

\* a Bootstrap error handler that resets the startup flag
ev_bootstrap_err_reset(id, is_last) ==
    /\ running
    /\ id \in queries
    /\ queries' = IF is_last THEN queries \ {id} ELSE queries
    /\ IF id \in DOMAIN pending_kad_queries
       THEN /\ pending_kad_queries' = Remove(pending_kad_queries, id)
            /\ chan' = Send(pending_kad_queries[id], "QueryErr", -1, {})
            /\ is_startup_done' = FALSE
            /\ Record(Step("BootstrapErr", pending_kad_queries[id], id, NoPeer, ""))
       ELSE /\ UNCHANGED <<pending_kad_queries, chan, is_startup_done>>
            /\ Record(Step("BootstrapErr", NoChan, id, NoPeer, ""))
    /\ UNCHANGED <<command_queue, clients, routing, next_query, pending_kad_routing,
                   pending_swarm_events, queued_events, running>>

\* a Bootstrap error handler that marks the startup as done
ev_bootstrap_err_done(id, is_last) ==
    /\ running
    /\ id \in queries
    /\ queries' = IF is_last THEN queries \ {id} ELSE queries
    /\ IF id \in DOMAIN pending_kad_queries
       THEN /\ pending_kad_queries' = Remove(pending_kad_queries, id)
            /\ chan' = Send(pending_kad_queries[id], "QueryErr", -1, {})
            /\ is_startup_done' = TRUE
            /\ Record(Step("BootstrapErr", pending_kad_queries[id], id, NoPeer, ""))
       ELSE /\ UNCHANGED <<pending_kad_queries, chan, is_startup_done>>
            /\ Record(Step("BootstrapErr", NoChan, id, NoPeer, ""))
    /\ UNCHANGED <<command_queue, clients, routing, next_query, pending_kad_routing,
                   pending_swarm_events, queued_events, running>>

\* a Bootstrap error handler that takes the query error for fatal and panics
ev_bootstrap_err_panic(id, is_last) ==
    /\ running
    /\ id \in queries
    /\ Terminate("panic")

\* OutboundQueryProgressed { id, result: Bootstrap(Err(err)) }: one round of
\* the query timed out; the DHT ends the query (is_last) or continues it
ev_bootstrap_err(id, is_last) ==
    /\ running
    /\ id \in queries
    /\ queries' = IF is_last THEN queries \ {id} ELSE queries
    /\ IF id \in DOMAIN pending_kad_queries
       THEN /\ pending_kad_queries' = Remove(pending_kad_queries, id)
            /\ chan' = Send(pending_kad_queries[id], "QueryErr", -1, {})
            /\ Record(Step("BootstrapErr", pending_kad_queries[id], id, NoPeer, ""))
       ELSE /\ UNCHANGED <<pending_kad_queries, chan>>
            /\ Record(Step("BootstrapErr", NoChan, id, NoPeer, ""))
    /\ UNCHANGED <<command_queue, clients, routing, next_query, pending_kad_routing,
                   pending_swarm_events, is_startup_done, queued_events, running>>

\* a.to_string().contains(Protocol::P2p(peer_id).tag()): tag() is the name of
\* the protocol, "p2p", whatever the peer id
ContainsP2pTag(a) == a \in {"p2p_same", "p2p_other"}

\* kademlia.add_address(peer, addr), for each address of addrs
add_addresses(rt, p, addrs) ==
    IF addrs = {} THEN rt
    ELSE [rt EXCEPT ![p] = IF @ = Absent THEN addrs ELSE @ \cup addrs]

\* the protocol_version of an identify message: this node's own
\* identify_protocol_version, or that of another protocol family
OwnProtocolVersion == "own_version"
ProtocolVersions == {OwnProtocolVersion, "other_version"}

\* IdentifyEvent::Received { peer_id, info: Info { listen_addrs, .. } }: the
\* protocol_version of the info is not bound
ev_identify_received(peer_id, protocol_version, listen_addrs) ==
    /\ running
    /\ routing' = add_addresses(routing, peer_id, {a \in listen_addrs : ContainsP2pTag(a)})
    /\ Record(Step("IdentifyReceived", NoChan, NoQuery, peer_id, protocol_version))
    /\ UNCHANGED <<command_queue, chan, clients, queries, next_query, pending,
                   is_startup_done, queued_events, running>>

Causes == {"None", "IO", "Handler", "KeepAliveTimeout"}

\* a ConnectionClosed handler that evicts the peer for every Some(cause)
ev_connection_closed_any(peer_id, cause) ==
    /\ running
    /\ routing' = IF cause # "None" THEN remove_peer(routing, peer_id) ELSE routing
    /\ Record(Step("ConnectionClosed", NoChan, NoQuery, peer_id, cause))
    /\ UNCHANGED <<command_queue, chan, clients, queries, next_query, pending,
                   is_startup_done, queued_events, running>>

\* a ConnectionClosed handler that evicts the peer for I/O failures only
ev_connection_closed_io(peer_id, cause) ==
    /\ running
    /\ routing' = IF cause = "IO" THEN remove_peer(routing, peer_id) ELSE routing
    /\ Record(Step("ConnectionClosed", NoChan, NoQuery, peer_id, cause))
    /\ UNCHANGED <<command_queue, chan, clients, queries, next_query, pending,
                   is_startup_done, queued_events, running>>

\* SwarmEvent::ConnectionClosed { peer_id, cause, .. }
ev_connection_closed(peer_id, cause) ==
    /\ running
    /\ routing' = IF cause \in {"IO", "Handler"} THEN remove_peer(routing, peer_id) ELSE routing
    /\ Record(Step("ConnectionClosed", NoChan, NoQuery, peer_id, cause))
    /\ UNCHANGED <<command_queue, chan, clients, queries, next_query, pending,
                   is_startup_done, queued_events, running>>

\* the DialError of an OutgoingConnectionError event
DialErrors == {"Transport", "WrongPeerId"}

\* an OutgoingConnectionError handler that evicts for transport errors only
ev_outgoing_connection_error_transport(peer_id, error) ==
    /\ running
    /\ routing' = IF peer_id # NoPeer /\ error = "Transport"
                  THEN remove_peer(routing, peer_id) ELSE routing
    /\ Record(Step("OutgoingConnectionError", NoChan, NoQuery, peer_id, error))
    /\ UNCHANGED <<command_queue, chan, clients, queries, next_query, pending,
                   is_startup_done, queued_events, running>>

\* SwarmEvent::OutgoingConnectionError { peer_id: Option<PeerId>, .. }: the
\* error of the event is not looked at
ev_outgoing_connection_error(peer_id, error) ==
    /\ running
    /\ routing' = IF peer_id # NoPeer THEN remove_peer(routing, peer_id) ELSE routing
    /\ Record(Step("OutgoingConnectionError", NoChan, NoQuery, peer_id, error))
    /\ UNCHANGED <<command_queue, chan, clients, queries, next_query, pending,
                   is_startup_done, queued_events, running>>

\* a ConnectionEstablished handler that signals the waiter through a reference
\* (get) and leaves the entry in the map
ev_connection_established_keep(endpoint) ==
    /\ running
    /\ IF endpoint = "Listener" /\ LocalPeerId \in DOMAIN pending_swarm_events
       THEN /\ chan' = Send(pending_swarm_events[LocalPeerId], "Unit", -1, {})
            /\ Record(Step("ConnectionEstablished", pending_swarm_events[LocalPeerId],
                            NoQuery, NoPeer, endpoint))
       ELSE /\ UNCHANGED chan
            /\ Record(Step("ConnectionEstablished", NoChan, NoQuery, NoPeer, endpoint))
    /\ UNCHANGED <<command_queue, clients, routing, queries, next_query, pending,
                   is_startup_done, queued_events, running>>

\* a ConnectionEstablished handler that does not look at the endpoint
ev_connection_established_any(endpoint) ==
    /\ running
    /\ IF LocalPeerId \in DOMAIN pending_swarm_events
       THEN /\ pending_swarm_events' = Remove(pending_swarm_events, LocalPeerId)
            /\ chan' = Send(pending_swarm_events[LocalPeerId], "Unit", -1, {})
            /\ Record(Step("ConnectionEstablished", pending_swarm_events[LocalPeerId],
                            NoQuery, NoPeer, endpoint))
       ELSE /\ UNCHANGED <<pending_swarm_events, chan>>
            /\ Record(Step("ConnectionEstablished", NoChan, NoQuery, NoPeer, endpoint))
    /\ UNCHANGED <<command_queue, clients, routing, queries, next_query,
                   pending_kad_queries, pending_kad_routing, is_startup_done, queued_events, running>>

\* SwarmEvent::ConnectionEstablished { endpoint, .. }
ev_connection_established(endpoint) ==
    /\ running
    /\ IF endpoint = "Listener" /\ LocalPeerId \in DOMAIN pending_swarm_events
       THEN /\ pending_swarm_events' = Remove(pending_swarm_events, LocalPeerId)
            /\ chan' = Send(pending_swarm_events[LocalPeerId], "Unit", -1, {})
            /\ Record(Step("ConnectionEstablished", pending_swarm_events[LocalPeerId],
                            NoQuery, NoPeer, endpoint))
       ELSE /\ UNCHANGED <<pending_swarm_events, chan>>
            /\ Record(Step("ConnectionEstablished", NoChan, NoQuery, NoPeer, endpoint))
    /\ UNCHANGED <<command_queue, clients, routing, queries, next_query,
                   pending_kad_queries, pending_kad_routing, is_startup_done, queued_events, running>>

\* the events the engine only logs or ignores (AutoNAT, NewListenAddr, the
\* catch-all arms)
ev_other ==
    /\ running
    /\ Record(Step("Other", NoChan, NoQuery, NoPeer, ""))
    /\ UNCHANGED <<command_queue, chan, clients, engine>>

\* the inputs of the events of Spec, ClientSpec and LifeSpec: identify
\* messages with and without an address that is registered, a cause that
\* evicts and one that does not, transport errors as dial errors.
\* IdentifySpec has every kind of address, cause and dial error
ListenAddrs == {"p2p_same", "no_p2p"}

handle_event ==
    \/ \E p \in Peers : ev_routing_updated(p, "p2p_same")
    \/ \E id \in QueryIds, n \in 0 .. 1 : ev_bootstrap_ok(id, n)
    \/ \E id \in QueryIds, is_last \in BOOLEAN : ev_bootstrap_err(id, is_last)
    \/ \E p \in Peers, addrs \in {ListenAddrs, {"no_p2p"}} :
           ev_identify_received(p, OwnProtocolVersion, addrs)
    \/ \E p \in Peers, cause \in {"IO", "KeepAliveTimeout"} : ev_connection_closed(p, cause)
    \/ \E p \in Peers \cup {NoPeer} : ev_outgoing_connection_error(p, "Transport")
    \/ \E e \in {"Listener", "Dialer"} : ev_connection_established(e)
    \/ ev_other

\* ---------------------------------------------------------------------
\* EventLoop::run: one ready branch of the select! per step
\* ---------------------------------------------------------------------
\* Spec: command_receiver.recv() yields a command of the environment
CommandKinds == {"StartListening", "Bootstrap", "WaitIncomingConnection",
                 "CountDHTPeers", "GetMultiaddress"}

recv_command(kind, addr) ==
    /\ nch[Env] < MaxCommands
    /\ handle_command(Command(kind, FreshChan(Env), addr))
    /\ nch' = [nch EXCEPT ![Env] = @ + 1]
    /\ UNCHANGED <<command_queue, pc, cur, result, sent, counted_peers>>

\* a receiver of commands that hands out any of the queued commands
next_command_any ==
    \E i \in DOMAIN command_queue :
        /\ handle_command(command_queue[i])
        /\ command_queue' = [j \in 1 .. Len(command_queue) - 1 |->
                                 IF j < i THEN command_queue[j] ELSE command_queue[j + 1]]
        /\ UNCHANGED clients

\* ClientSpec: command_receiver.recv() yields the head of the queue
next_command ==
    /\ command_queue # <<>>
    /\ handle_command(Head(command_queue))
    /\ command_queue' = Tail(command_queue)
    /\ UNCHANGED clients

Next ==
    \/ handle_event
    \/ \E addr \in {"valid", "invalid"} : recv_command("StartListening", addr)
    \/ \E kind \in CommandKinds \ {"StartListening"} : recv_command(kind, "")
    \/ handle_periodic_bootstraps

Spec == Init /\ [][Next]_vars

\* the callers of ClientSpec call bootstrap()
ClientStep ==
    \E c \in Clients :
        \/ bootstrap(c)
        \/ bootstrap_counted(c)
        \/ bootstrap_connected(c)
        \/ bootstrap_response(c)

ClientNext ==
    \/ ClientStep
    \/ handle_event
    \/ next_command
    \/ handle_periodic_bootstraps

ClientSpec == ClientInit /\ [][ClientNext]_vars

\* ---------------------------------------------------------------------
\* The life of the handles and of the engine
\* ---------------------------------------------------------------------
Awaits == {"await_listen", "await_count", "await_conn", "await_boot", "await_entries"}

\* the caller drops its Client handle; a call it was awaiting is dropped with
\* its response receiver, and what the caller had observed goes with it
drop_client(c) ==
    /\ pc[c] # "dropped"
    /\ pc' = [pc EXCEPT ![c] = "dropped"]
    /\ cur' = [cur EXCEPT ![c] = NoChan]
    /\ result' = [result EXCEPT ![c] = "none"]
    /\ sent' = [sent EXCEPT ![c] = <<>>]
    /\ counted_peers' = [counted_peers EXCEPT ![c] = -1]
    /\ chan' = [x \in DOMAIN chan |->
                    IF x = cur[c] THEN [chan[x] EXCEPT !.closed = TRUE] ELSE chan[x]]
    /\ Record(Step("drop_client", cur[c], NoQuery, NoPeer, pc[c]))
    /\ UNCHANGED <<command_queue, nch, engine>>

\* every mpsc::Sender is gone
AllHandlesDropped == \A c \in Clients : pc[c] = "dropped"

\* a run loop that returns only once its pending maps are empty
run_return_idle ==
    /\ running
    /\ AllHandlesDropped
    /\ command_queue = <<>>
    /\ PendingChans = {}
    /\ Terminate("run_return")

\* command_receiver.recv() yields None (channel closed and empty): return
run_return ==
    /\ running
    /\ AllHandlesDropped
    /\ command_queue = <<>>
    /\ Terminate("run_return")

\* the owner of the EventLoop drops it, or the task that runs it, while
\* handles are still in use
engine_dropped ==
    /\ running
    /\ Terminate("engine_dropped")

LifeClientStep ==
    \E c \in Clients :
        \/ \E addr \in {"valid", "invalid"} : start_listening(c, addr)
        \/ start_listening_response(c)
        \/ bootstrap(c)
        \/ bootstrap_counted(c)
        \/ bootstrap_connected(c)
        \/ bootstrap_response(c)
        \/ get_dht_entries(c)
        \/ get_dht_entries_response(c)
        \/ drop_client(c)

LifeNext ==
    \/ LifeClientStep
    \/ handle_event
    \/ next_command
    \/ handle_periodic_bootstraps
    \/ run_return
    \/ engine_dropped

\* Client::new, with clones of the handle for the clients of Handles only
LifeInit ==
    /\ command_queue = <<>>
    /\ chan = [x \in ChanIds |-> NewChan]
    /\ nch = [c \in Clients \cup {Env} |-> 0]
    /\ pc = [c \in Clients |-> IF c \in Handles THEN "start" ELSE "dropped"]
    /\ cur = [c \in Clients |-> NoChan]
    /\ result = [c \in Clients |-> "none"]
    /\ sent = [c \in Clients |-> <<>>]
    /\ counted_peers = [c \in Clients |-> -1]
    /\ running = TRUE
    /\ routing = [p \in Peers |-> Absent]
    /\ queries = {}
    /\ next_query = 1
    /\ queued_events = {}
    /\ pending_kad_queries = EmptyMap
    /\ pending_kad_routing = EmptyMap
    /\ pending_swarm_events = EmptyMap
    /\ is_startup_done = FALSE
    /\ last = Untraced
    /\ call = NoCall

\* select! polls its branches in random order, and recv() on a closed and
\* empty channel is ready at every poll: the return is not put off forever
LifeSpec == LifeInit /\ [][LifeNext]_vars /\ WF_vars(run_return)

\* IdentifySpec: the routing table under identify messages of every protocol
\* version and with every kind of listen address, and what the commands that
\* read the routing table report
\* the handler treats each listen address on its own: messages with no
\* address, with one address of each kind, and with one of every kind
IdentifyAddrs == {{}, AddrKinds} \cup {{a} : a \in AddrKinds}

IdentifyNext ==
    \/ \E p \in Peers, v \in ProtocolVersions, addrs \in IdentifyAddrs :
           ev_identify_received(p, v, addrs)
    \/ \E p \in Peers, a \in AddrKinds : ev_routing_updated(p, a)
    \/ \E p \in Peers, cause \in Causes : ev_connection_closed(p, cause)
    \/ \E p \in Peers \cup {NoPeer}, e \in DialErrors : ev_outgoing_connection_error(p, e)
    \/ \E kind \in {"GetDHTEntries", "CountDHTPeers"} : recv_command(kind, "")

IdentifySpec == Init /\ [][IdentifyNext]_vars

\* QueueSpec: one Client handle whose calls run concurrently: a call sends its
\* command while the commands of earlier calls are queued or unanswered, and a
\* call may be dropped with its response receiver before the answer
send_command(kind, addr) ==
    /\ running
    /\ nch[Env] < MaxCommands
    /\ command_queue' = Append(command_queue, Command(kind, FreshChan(Env), addr))
    /\ nch' = [nch EXCEPT ![Env] = @ + 1]
    /\ Record(Step("send_command", FreshChan(Env), NoQuery, NoPeer, kind))
    /\ UNCHANGED <<chan, pc, cur, result, sent, counted_peers, engine>>

\* the call that created ch is dropped while it awaits the answer
drop_receiver(ch) ==
    /\ ch[1] = Env
    /\ ch[2] \in 1 .. nch[Env]
    /\ ~Ready(ch)
    /\ ~chan[ch].closed
    /\ chan' = [x \in DOMAIN chan |->
                    IF x = ch THEN [chan[x] EXCEPT !.closed = TRUE] ELSE chan[x]]
    /\ Record(Step("drop_receiver", ch, NoQuery, NoPeer, ""))
    /\ UNCHANGED <<command_queue, clients, engine>>

QueueNext ==
    \/ \E kind \in {"Bootstrap", "WaitIncomingConnection", "CountDHTPeers"} :
           send_command(kind, "")
    \/ send_command("StartListening", "valid")
    \/ \E ch \in ChanIds : drop_receiver(ch)
    \/ next_command
    \/ \E p \in Peers : ev_routing_updated(p, "p2p_same")
    \/ \E id \in QueryIds : ev_bootstrap_ok(id, 0)
    \/ \E id \in QueryIds : ev_bootstrap_err(id, TRUE)
    \/ ev_connection_established("Listener")

QueueSpec == Init /\ [][QueueNext]_vars

\* AddrSpec: AddAddress commands among the other commands, with one peer more
\* than the other specifications, so that the add-address entries of two peers
\* are pending together
AddrPeers == 1 .. NumPeers + 1

AddrInit ==
    /\ command_queue = <<>>
    /\ chan = [x \in ChanIds |-> NewChan]
    /\ nch = [c \in Clients \cup {Env} |-> 0]
    /\ pc = [c \in Clients |-> "start"]
    /\ cur = [c \in Clients |-> NoChan]
    /\ result = [c \in Clients |-> "none"]
    /\ sent = [c \in Clients |-> <<>>]
    /\ counted_peers = [c \in Clients |-> -1]
    /\ running = TRUE
    /\ routing = [p \in AddrPeers |-> Absent]
    /\ queries = {}
    /\ next_query = 1
    /\ queued_events = {}
    /\ pending_kad_queries = EmptyMap
    /\ pending_kad_routing = EmptyMap
    /\ pending_swarm_events = EmptyMap
    /\ is_startup_done = FALSE
    /\ last = Step("init", NoChan, NoQuery, NoPeer, "")
    /\ call = NoCall

\* the DHT delivers a RoutingUpdated event it has queued
queued_routing_updated == \E p \in queued_events : ev_routing_updated(p, "p2p_same")

AddrNext ==
    \/ \E p \in AddrPeers : recv_command("AddAddress", <<p, "p2p_same">>)
    \/ \E kind \in {"GetDHTEntries", "CountDHTPeers", "GetMultiaddress"} :
           recv_command(kind, "")
    \/ \E kind \in {"Bootstrap", "WaitIncomingConnection"} : recv_command(kind, "")
    \/ queued_routing_updated
    \/ \E p \in AddrPeers : ev_routing_updated(p, "p2p_same")
    \/ \E id \in QueryIds : ev_bootstrap_ok(id, 0)

\* the swarm polls the DHT for its queued events: one that is queued is
\* delivered
AddrSpec == AddrInit /\ [][AddrNext]_vars /\ WF_vars(queued_routing_updated)

\* ---------------------------------------------------------------------
\* The functions of src/types.rs; a string is the sequence of its characters
\* ---------------------------------------------------------------------
HexGenesisHash ==
    <<"9", "d", "5", "e", "a", "6", "a", "5", "d", "7", "6", "3", "1", "e", "1", "3",
      "0", "2", "8", "b", "6", "8", "4", "a", "1", "a", "0", "0", "7", "8", "e", "3",
      "9", "7", "0", "c", "a", "a", "7", "8", "b", "d", "6", "7", "7", "e", "a", "e",
      "c", "a", "f", "2", "1", "6", "0", "3", "0", "4", "f", "1", "7", "4", "f", "b">>
TuringGenesisHash ==
    <<"d", "3", "d", "2", "f", "3", "a", "3", "4", "9", "5", "d", "c", "5", "9", "7",
      "4", "3", "4", "a", "9", "9", "d", "7", "d", "4", "4", "9", "e", "b", "a", "d",
      "6", "6", "1", "6", "d", "b", "4", "5", "e", "4", "e", "4", "f", "1", "7", "8",
      "f", "3", "1", "c", "c", "6", "f", "a", "1", "4", "3", "7", "8", "b", "7", "0">>
\* RuntimeConfig::default(): genesis_hash is "DEV"
DefaultGenesisHash == <<"D", "E", "V">>

\* a slice &s[..n] of a string of one-byte characters: it panics when n is
\* beyond the end of the string
SliceTo(str, n) ==
    IF n <= Len(str)
    THEN [panic |-> FALSE, val |-> SubSeq(str, 1, n)]
    ELSE [panic |-> TRUE, val |-> <<>>]

\* the match of network_name
Network(genesis_hash) ==
    CASE genesis_hash = HexGenesisHash -> "hex"
      [] genesis_hash = TuringGenesisHash -> "turing"
      [] genesis_hash = DefaultGenesisHash -> "local"
      [] OTHER -> "other"

\* format!("{}:{}", network, &genesis_hash[..6])
network_name(genesis_hash) ==
    IF SliceTo(genesis_hash, 6).panic
    THEN [panic |-> TRUE, val |-> <<>>]
    ELSE [panic |-> FALSE, val |-> <<Network(genesis_hash), SliceTo(genesis_hash, 6).val>>]

\* the genesis hashes of the calls: the three that network_name knows, and
\* every string of up to MaxHashLen characters of HashChars
HashChars == {"9", "d"}
GenesisHashes ==
    {HexGenesisHash, TuringGenesisHash, DefaultGenesisHash}
        \cup UNION {[1 .. n -> HashChars] : n \in 0 .. MaxHashLen}

\* ---- IdentifyConfig::is_supported ----
\* str::parse::<i32>() of a string of digits, and unwrap_or(0) for the empty
\* string, which does not parse
RECURSIVE ParseOr0(_)
ParseOr0(digits) ==
    IF digits = <<>> THEN 0
    ELSE 10 * ParseOr0(SubSeq(digits, 1, Len(digits) - 1)) + digits[Len(digits)]

\* MINIMUM_SUPPORTED_VERSION = "1.9.2", split at the dots
MinimumSupportedVersion == <<<<1>>, <<9>>, <<2>>>>

\* the pairs of zip(): as many as the shorter of the two has components
ZipLen(a, b) == IF Len(a) < Len(b) THEN Len(a) ELSE Len(b)

\* find(|(old, new)| old != new): the index of the first pair that differs, or 0
FirstDifference(old, new) ==
    LET diff == {i \in 1 .. ZipLen(old, new) : ParseOr0(old[i]) # ParseOr0(new[i])}
    IN  IF diff = {} THEN 0 ELSE CHOOSE i \in diff : \A j \in diff : i <= j

\* the order of versions: component by component as numbers, a component that
\* one of the two lacks counting as 0 (1.9 is 1.9.0, below 1.9.2)
VersionAtLeastMinimum(version) ==
    LET n == IF Len(version) < Len(MinimumSupportedVersion)
             THEN Len(MinimumSupportedVersion) ELSE Len(version)
        old == [i \in 1 .. n |-> IF i <= Len(MinimumSupportedVersion)
                                 THEN MinimumSupportedVersion[i] ELSE <<>>]
        new == [i \in 1 .. n |-> IF i <= Len(version) THEN version[i] ELSE <<>>]
        i == FirstDifference(old, new)
    IN  IF i = 0 THEN TRUE ELSE ParseOr0(new[i]) > ParseOr0(old[i])

\* minimum.split('.').map(parse).zip(version.split('.').map(parse))
\*     .find(|(old, new)| old != new).map_or(true, |(old, new)| new > old)
is_supported(version) ==
    LET i == FirstDifference(MinimumSupportedVersion, version)
    IN  IF i = 0
        THEN TRUE
        ELSE ParseOr0(version[i]) > ParseOr0(MinimumSupportedVersion[i])

\* the components of the versions of the calls: one digit, two digits with and
\* without a leading zero, and the empty component
Components == {<<d>> : d \in {0, 1, 2, 3, 9}} \cup {<<0, 9>>, <<1, 0>>, <<>>}
\* version.split('.') has at least one component
Versions == UNION {[1 .. n -> Components] : n \in 1 .. MaxParts}

\* TypesSpec: one call of network_name or of is_supported, on any argument
TypesInit ==
    /\ command_queue = <<>>
    /\ chan = [x \in ChanIds |-> NewChan]
    /\ nch = [c \in Clients \cup {Env} |-> 0]
    /\ pc = [c \in Clients |-> "start"]
    /\ cur = [c \in Clients |-> NoChan]
    /\ result = [c \in Clients |-> "none"]
    /\ sent = [c \in Clients |-> <<>>]
    /\ counted_peers = [c \in Clients |-> -1]
    /\ running = TRUE
    /\ routing = [p \in Peers |-> Absent]
    /\ queries = {}
    /\ next_query = 1
    /\ queued_events = {}
    /\ pending_kad_queries = EmptyMap
    /\ pending_kad_routing = EmptyMap
    /\ pending_swarm_events = EmptyMap
    /\ is_startup_done = FALSE
    /\ last = Untraced
    /\ call \in {[fn |-> "network_name", arg |-> h, done |-> FALSE, panic |-> FALSE,
                   val |-> <<>>] : h \in GenesisHashes}
               \cup {[fn |-> "is_supported", arg |-> v, done |-> FALSE, panic |-> FALSE,
                       val |-> <<>>] : v \in Versions}

call_network_name ==
    /\ call.fn = "network_name"
    /\ ~call.done
    /\ call' = [call EXCEPT !.done = TRUE,
                            !.panic = network_name(call.arg).panic,
                            !.val = network_name(call.arg).val]
    /\ UNCHANGED <<command_queue, chan, clients, engine, last>>

call_is_supported ==
    /\ call.fn = "is_supported"
    /\ ~call.done
    /\ call' = [call EXCEPT !.done = TRUE, !.val = <<is_supported(call.arg)>>]
    /\ UNCHANGED <<command_queue, chan, clients, engine, last>>

TypesNext ==
    \/ call_network_name
    \/ call_is_supported

TypesSpec == TypesInit /\ [][TypesNext]_vars

\* ---------------------------------------------------------------------
\* Properties
\* ---------------------------------------------------------------------
\* C1: no response channel handed to the engine is ever signaled more than
\* once, whatever the interleaving of commands, swarm events and timer ticks
C1_SignaledAtMostOnce == \A ch \in ChanIds : chan[ch].n <= 1

\* a channel parked in pending_kad_queries was signaled by the event of its query
C1_Witness ==
    /\ last.kind \in {"BootstrapOk", "BootstrapErr"}
    /\ last.ch # NoChan
    /\ chan[last.ch].n = 1

\* C2 (as claimed): an entry leaves a pending map only by being removed with a
\* result sent on its channel; it is never replaced or discarded unsignaled
C2_EntryLeavesOnlySignaled ==
    [][\A ch \in PendingChans :
          (ch \notin PendingChans') => (chan'[ch].n = chan[ch].n + 1)]_vars

\* C3: is_startup_done starts false and never returns from true to false
C3_StartupLatch == (~is_startup_done) /\ [][is_startup_done => is_startup_done']_vars

\* the flag is set and a later Bootstrap query of a caller has failed
C3_Witness ==
    /\ is_startup_done
    /\ last.kind = "BootstrapErr"
    /\ last.ch # NoChan

\* C4: a timer tick handled while is_startup_done is false starts no query
\* and changes neither the routing table, the pending maps nor the flag
C4_TickBeforeStartupNoop ==
    [][(last'.kind = "Tick" /\ ~is_startup_done)
          => UNCHANGED <<routing, queries, next_query, pending, is_startup_done, chan,
                         command_queue>>]_vars

\* a tick was handled before the startup is done, with a peer to query
C4_Witness ==
    /\ last.kind = "Tick"
    /\ last.arg = "startup"
    /\ ~is_startup_done
    /\ BootstrapPossible(routing)

\* C5 (as claimed): once is_startup_done is true every timer tick starts a
\* bootstrap query, with no response channel and no pending entry
C5_EveryTickStartsQuery ==
    [][(last'.kind = "Tick" /\ is_startup_done)
          => /\ queries' = queries \cup {next_query}
             /\ next_query' = next_query + 1
             /\ UNCHANGED <<pending, chan>>]_vars

\* C5 (amended): once is_startup_done is true a timer tick starts a bootstrap
\* query exactly when the routing table holds a peer, and in either case no
\* response channel is attached and no pending entry is added
C5_TickStartsQueryIfPeers ==
    [][(last'.kind = "Tick" /\ is_startup_done)
          => /\ IF BootstrapPossible(routing)
                THEN queries' = queries \cup {next_query} /\ next_query' = next_query + 1
                ELSE UNCHANGED <<queries, next_query>>
             /\ UNCHANGED <<pending, chan, routing, is_startup_done>>]_vars

\* a tick after the startup has started a query that no pending entry knows
C5_Witness ==
    /\ last.kind = "Tick"
    /\ last.arg = "done"
    /\ last.id \in queries
    /\ last.id \notin DOMAIN pending_kad_queries

\* C6: a Bootstrap command handled on an empty routing table answers its
\* caller with an error at once, starts no query and adds no pending entry
C6_BootstrapOnEmptyTable ==
    [][(last'.kind = "Bootstrap" /\ ~BootstrapPossible(routing))
          => /\ chan'[last'.ch].n = 1
             /\ chan'[last'.ch].val = "NoKnownPeers"
             /\ UNCHANGED <<queries, next_query, pending>>]_vars

C6_Witness ==
    /\ last.kind = "Bootstrap"
    /\ last.arg = "Err"
    /\ ~BootstrapPossible(routing)
    /\ chan[last.ch].val = "NoKnownPeers"

\* C7: a BootstrapOk event with num_remaining = 0 for a query with a pending
\* entry removes the entry, sends Ok to its caller and sets is_startup_done
C7_BootstrapOkCompletes ==
    [][(last'.kind = "BootstrapOk" /\ last'.arg = "last"
            /\ last'.id \in DOMAIN pending_kad_queries)
          => /\ last'.id \notin DOMAIN pending_kad_queries'
             /\ chan'[pending_kad_queries[last'.id]].n = chan[pending_kad_queries[last'.id]].n + 1
             /\ chan'[pending_kad_queries[last'.id]].val = "Ok"
             /\ is_startup_done']_vars

C7_Witness ==
    /\ last.kind = "BootstrapOk"
    /\ last.ch # NoChan
    /\ chan[last.ch].val = "Ok"
    /\ last.id \notin DOMAIN pending_kad_queries
    /\ is_startup_done

\* C8: a Bootstrap error event for a query with a pending entry removes the
\* entry, sends the failure to its caller and leaves is_startup_done as it was
C8_BootstrapErrCompletes ==
    [][(last'.kind = "BootstrapErr" /\ last'.id \in DOMAIN pending_kad_queries)
          => /\ last'.id \notin DOMAIN pending_kad_queries'
             /\ chan'[pending_kad_queries[last'.id]].n = chan[pending_kad_queries[last'.id]].n + 1
             /\ chan'[pending_kad_queries[last'.id]].val = "QueryErr"
             /\ is_startup_done' = is_startup_done]_vars

C8_Witness ==
    /\ last.kind = "BootstrapErr"
    /\ last.ch # NoChan
    /\ chan[last.ch].val = "QueryErr"
    /\ last.id \notin DOMAIN pending_kad_queries
    /\ ~is_startup_done

ColdStart == <<"GetDHTEntries", "WaitIncomingConnection", "Bootstrap">>
WarmStart == <<"GetDHTEntries", "Bootstrap">>

\* C9 (as claimed): a bootstrap() call on an empty routing table that was
\* released by an inbound connection has its Bootstrap command start a query,
\* so that it never returns the no-known-peers error
C9_ColdStartStartsQuery ==
    \A c \in Clients :
        (pc[c] = "returned" /\ sent[c] = ColdStart) => result[c] # "NoKnownPeers"

IsPrefix(s, t) == Len(s) <= Len(t) /\ \A i \in 1 .. Len(s) : s[i] = t[i]

\* C10: bootstrap() sends GetDHTEntries, then WaitIncomingConnection only if
\* the count was zero, then Bootstrap; each command after the response to the
\* previous one arrived, and Bootstrap never before a requested wait is answered
C10_BootstrapCommandOrder ==
    \A c \in Clients :
        /\ IsPrefix(sent[c], ColdStart) \/ sent[c] = WarmStart
        /\ Len(sent[c]) >= 2 => chan[<<c, 1>>].n = 1
        /\ (Len(sent[c]) >= 2 /\ sent[c][2] = "WaitIncomingConnection") => counted_peers[c] = 0
        /\ sent[c] = WarmStart => counted_peers[c] >= 1
        /\ sent[c] = ColdStart => chan[<<c, 2>>].n = 1
        /\ Cardinality({i \in DOMAIN command_queue : command_queue[i].ch[1] = c}) <= 1
        /\ Len(sent[c]) = nch[c]

\* one caller went through the wait, another found a peer in the table
C10_Witness ==
    \E c, d \in Clients :
        /\ sent[c] = ColdStart
        /\ sent[d] = WarmStart
        /\ pc[c] = "returned"
        /\ pc[d] = "returned"

\* C11: after a connection-closed event for a peer with an I/O or handler
\* failure as its cause the peer is not in the routing table, and the routing
\* table is what GetDHTEntries and CountDHTPeers report
C11_FailedPeerEvicted ==
    /\ (last.kind = "ConnectionClosed" /\ last.arg \in {"IO", "Handler"})
          => /\ routing[last.peer] = Absent
             /\ last.peer \notin KnownPeers(routing)
    /\ last.kind = "GetDHTEntries" => chan[last.ch].data = KnownPeers(routing)
    /\ last.kind = "CountDHTPeers" => chan[last.ch].num = Cardinality(KnownPeers(routing))

\* the connection of a peer that GetDHTEntries had reported has failed in its
\* protocol handler
C11_Witness ==
    /\ last.kind = "ConnectionClosed"
    /\ last.arg = "Handler"
    /\ routing[last.peer] = Absent
    /\ \E ch \in ChanIds : last.peer \in chan[ch].data

\* C12: a connection-closed event whose cause is the keep-alive timeout, or
\* that has no cause, leaves the routing table unchanged
C12_TimeoutKeepsPeer ==
    [][(last'.kind = "ConnectionClosed" /\ last'.arg \in {"KeepAliveTimeout", "None"})
          => routing' = routing]_vars

\* a peer of the routing table is still there after its connection timed out
C12_Witness ==
    /\ last.kind = "ConnectionClosed"
    /\ last.arg = "KeepAliveTimeout"
    /\ routing[last.peer] # Absent

\* C13: an outgoing-connection-error event with a peer id evicts that peer,
\* and only that peer, whatever the error; one without a peer id evicts nobody
C13_DialErrorEvicts ==
    [][last'.kind = "OutgoingConnectionError"
          => routing' = IF last'.peer # NoPeer
                        THEN remove_peer(routing, last'.peer)
                        ELSE routing]_vars

\* a dial to a peer that GetDHTEntries had reported failed with a wrong peer id
C13_Witness ==
    /\ last.kind = "OutgoingConnectionError"
    /\ last.arg = "WrongPeerId"
    /\ last.peer # NoPeer
    /\ routing[last.peer] = Absent
    /\ \E ch \in ChanIds : last.peer \in chan[ch].data

\* C14 (as claimed): an identify-received event of a peer whose protocol
\* version differs from this node's own adds nothing to the routing table
C14_OtherVersionNotAdded ==
    [][(last'.kind = "IdentifyReceived" /\ last'.arg # OwnProtocolVersion)
          => routing' = routing]_vars

\* the listen addresses an identify-received event has registered for its peer
Registered(p) == (routing'[p] \ Absent) \ routing[p]

\* C15 (as claimed): the only listen addresses an identify-received event of
\* peer P registers for P are those with a /p2p/ segment naming P
C15_OnlyOwnSuffixRegistered ==
    [][last'.kind = "IdentifyReceived"
          => Registered(last'.peer) \subseteq {"p2p_same"}]_vars

\* C16: an inbound connection-established event handled while a
\* wait-for-inbound-connection entry is pending removes the entry and sends
\* () to its caller; afterwards no wait entry is pending
C16_InboundCompletesWait ==
    [][(/\ last'.kind = "ConnectionEstablished"
        /\ last'.arg = "Listener"
        /\ LocalPeerId \in DOMAIN pending_swarm_events)
          => /\ DOMAIN pending_swarm_events' = {}
             /\ chan'[pending_swarm_events[LocalPeerId]].n
                    = chan[pending_swarm_events[LocalPeerId]].n + 1
             /\ chan'[pending_swarm_events[LocalPeerId]].val = "Unit"]_vars

C16_Witness ==
    /\ last.kind = "ConnectionEstablished"
    /\ last.arg = "Listener"
    /\ last.ch # NoChan
    /\ chan[last.ch].val = "Unit"
    /\ DOMAIN pending_swarm_events = {}

\* C17 (as claimed): every caller whose WaitIncomingConnection command was
\* handled is released by the () signal, also with several callers waiting:
\* no bootstrap() call ends at its wait with the channel closed unsignaled
C17_EveryWaiterSignaled ==
    \A c \in Clients :
        (pc[c] = "returned" /\ sent[c] = <<"GetDHTEntries", "WaitIncomingConnection">>)
            => result[c] # "RecvError"

\* C18: once every Client handle is dropped and the command channel is
\* drained the run loop returns, also with entries left in the pending maps
C18_ClosedChannelStops ==
    (running /\ AllHandlesDropped /\ command_queue = <<>>) ~> ~running

\* the loop has returned while a caller's entry was still pending
C18_Witness ==
    /\ ~running
    /\ last.kind = "run_return"
    /\ last.arg = "pending"
    /\ \E ch \in ChanIds : chan[ch].dropped /\ chan[ch].n = 0

\* C19: the run loop stops only by returning on a closed and drained command
\* channel: no swarm event, command or timer tick ends it while a handle
\* exists (its owner dropping the engine is not a step of the loop)
C19_StopsOnlyOnClosedChannel ==
    [][(running /\ ~running')
          => \/ last'.kind = "engine_dropped"
             \/ /\ last'.kind = "run_return"
                /\ AllHandlesDropped
                /\ command_queue = <<>>]_vars

\* a caller's bootstrap has failed and the engine is still running for it
C19_Witness ==
    /\ running
    /\ \E c \in Clients : pc[c] = "returned" /\ result[c] \in {"NoKnownPeers", "QueryErr"}

\* what a Client method returns: Ok(..) or an error value
Results == {"Ok", "Entries", "ListenErr", "NoKnownPeers", "QueryErr", "SendError", "RecvError"}

\* C20: a call of start_listening, bootstrap or get_dht_entries made after the
\* engine has terminated returns the send error; one whose response sender was
\* dropped before an answer returns the receive error; with the engine gone
\* no call is left waiting
C20_CallsEndWithError ==
    \A c \in Clients :
        /\ (~running /\ pc[c] \in Awaits) => Ready(cur[c])
        /\ pc[c] = "returned" => result[c] \in Results
        /\ (pc[c] = "returned" /\ nch[c] = 0) => result[c] = "SendError"
        /\ (pc[c] = "returned" /\ nch[c] > 0 /\ chan[<<c, nch[c]>>].n = 0)
              => result[c] = "RecvError"

\* the engine went away under a call that was waiting for its answer
C20_Witness ==
    /\ ~running
    /\ \E c \in Clients : pc[c] = "returned" /\ result[c] = "RecvError"

\* C25: the engine starts a bootstrap query only when it handles a Bootstrap
\* command or a timer tick: a Bootstrap command that failed starts none and
\* leaves nothing behind that would, a tick starts one only with
\* is_startup_done set, and the flag is set only by the last success event of
\* a query whose pending entry holds the channel of a Bootstrap command
C25_NoRetryOfFailedCommand ==
    [][/\ next_query' # next_query => last'.kind \in {"Bootstrap", "Tick"}
       /\ (last'.kind = "Bootstrap" /\ last'.arg = "Err")
             => UNCHANGED <<queries, next_query, pending, is_startup_done>>
       /\ (last'.kind = "Tick" /\ next_query' # next_query) => is_startup_done
       /\ (~is_startup_done /\ is_startup_done')
             => /\ last'.kind = "BootstrapOk"
                /\ last'.arg = "last"
                /\ last'.id \in DOMAIN pending_kad_queries
                /\ pending_kad_queries[last'.id] = last'.ch
                /\ chan'[last'.ch].val = "Ok"]_vars

\* a Bootstrap command has failed, a later one has succeeded, and a tick has
\* started a query of its own
C25_Witness ==
    /\ \E ch \in ChanIds : chan[ch].val = "NoKnownPeers"
    /\ is_startup_done
    /\ last.kind = "Tick"
    /\ last.id \in queries

\* C27: a Bootstrap command handled on a non-empty routing table starts exactly
\* one query and binds its id to the caller's channel in pending_kad_queries
\* without answering; a channel parked there is answered only by a progress
\* event of the query it is bound to
C27_BootstrapRegistersQuery ==
    [][/\ (last'.kind = "Bootstrap" /\ BootstrapPossible(routing))
             => /\ queries' = queries \cup {next_query}
                /\ next_query' = next_query + 1
                /\ last'.id = next_query
                /\ pending_kad_queries' = Insert(pending_kad_queries, next_query, last'.ch)
                /\ chan'[last'.ch] = NewChan
       /\ \A id \in DOMAIN pending_kad_queries :
             chan'[pending_kad_queries[id]] # chan[pending_kad_queries[id]]
                => /\ last'.kind \in {"BootstrapOk", "BootstrapErr"}
                   /\ last'.id = id]_vars

\* the query of a Bootstrap command has reported progress and its caller is
\* still waiting
C27_Witness ==
    /\ last.kind = "BootstrapOk"
    /\ last.arg = "more"
    /\ last.id \in DOMAIN pending_kad_queries
    /\ chan[pending_kad_queries[last.id]] = NewChan

\* C28: a connection-established event with this node as the dialer changes
\* neither the pending maps nor any channel; a wait-for-inbound-connection
\* entry leaves the map, and its caller gets (), only in an inbound one
C28_OutboundKeepsWait ==
    [][/\ (last'.kind = "ConnectionEstablished" /\ last'.arg = "Dialer")
             => UNCHANGED <<pending, chan>>
       /\ (\/ (LocalPeerId \in DOMAIN pending_swarm_events
                  /\ LocalPeerId \notin DOMAIN pending_swarm_events')
           \/ \E ch \in ChanIds : chan'[ch].val = "Unit" /\ chan[ch].val # "Unit")
             => (last'.kind = "ConnectionEstablished" /\ last'.arg = "Listener")]_vars

\* an outbound connection was established while a caller waited for an
\* inbound one, and the caller is still waiting
C28_Witness ==
    /\ last.kind = "ConnectionEstablished"
    /\ last.arg = "Dialer"
    /\ LocalPeerId \in DOMAIN pending_swarm_events
    /\ chan[pending_swarm_events[LocalPeerId]] = NewChan

\* C29: the last success event or an error event of a query without a pending
\* entry changes no channel, no pending map and not is_startup_done; a tick
\* whose bootstrap fails on an empty routing table changes nothing, and the
\* engine runs on after each of them
C29_UnregisteredQueryEnds ==
    [][/\ (/\ \/ (last'.kind = "BootstrapOk" /\ last'.arg = "last")
               \/ last'.kind = "BootstrapErr"
            /\ last'.id \notin DOMAIN pending_kad_queries)
             => /\ UNCHANGED <<pending, chan, is_startup_done, command_queue>>
                /\ running'
       /\ (last'.kind = "Tick" /\ is_startup_done /\ ~BootstrapPossible(routing))
             => /\ UNCHANGED <<pending, chan, is_startup_done, command_queue,
                               queries, next_query, routing>>
                /\ running']_vars

\* the query of a tick has failed: no caller ever got the error of a query,
\* and the engine is running
C29_Witness ==
    /\ last.kind = "BootstrapErr"
    /\ last.ch = NoChan
    /\ last.id \notin DOMAIN pending_kad_queries
    /\ is_startup_done
    /\ \A ch \in ChanIds : chan[ch].val # "QueryErr"
    /\ running

\* C30: a BootstrapOk event with num_remaining >= 1 leaves the pending entry of
\* its query in place, sends nothing and does not change is_startup_done
C30_ProgressKeepsEntry ==
    [][(last'.kind = "BootstrapOk" /\ last'.arg = "more")
          => UNCHANGED <<pending, chan, is_startup_done>>]_vars

\* a query with a pending entry has reported progress before the startup is done
C30_Witness ==
    /\ last.kind = "BootstrapOk"
    /\ last.arg = "more"
    /\ last.id \in DOMAIN pending_kad_queries
    /\ chan[pending_kad_queries[last.id]].n = 0
    /\ ~is_startup_done

\* C23 (as claimed): the response channel of every AddAddress command that was
\* handled becomes ready, whether or not its peer was known, and the peer is in
\* the routing table that GetDHTEntries reads once the command has completed
C23_AddAddressCompletes ==
    /\ \A ch \in ChanIds : (ch \in Values(pending_kad_routing)) ~> Ready(ch)
    /\ [](\A p \in AddrPeers :
             (last.kind = "RoutingUpdated" /\ last.peer = p /\ last.ch # NoChan)
                 => p \in KnownPeers(routing))

\* C24: a CountDHTPeers, GetDHTEntries or GetMultiaddress command is answered
\* in the step that handles it, and that step leaves the routing table, the
\* pending maps, is_startup_done and the DHT's queries and events unchanged
C24_ReadOnlyCommands ==
    [][last'.kind \in {"CountDHTPeers", "GetDHTEntries", "GetMultiaddress"}
          => /\ chan[last'.ch] = NewChan
             /\ chan'[last'.ch].n = 1
             /\ \A ch \in ChanIds \ {last'.ch} : chan'[ch] = chan[ch]
             /\ UNCHANGED <<routing, pending, is_startup_done, queries, next_query,
                            queued_events, running, command_queue>>]_vars

\* a read was answered while an add-address entry was pending
C24_Witness ==
    /\ last.kind \in {"CountDHTPeers", "GetDHTEntries", "GetMultiaddress"}
    /\ chan[last.ch].n = 1
    /\ pending_kad_routing # EmptyMap
    /\ KnownPeers(routing) # {}

\* C26: a RoutingUpdated event for peer P removes the add-address entry of P,
\* if there is one, and sends Ok on its channel; it changes no other entry, no
\* other channel and no other pending map, and with no entry for P none at all
C26_RoutingUpdatedCompletes ==
    [][last'.kind = "RoutingUpdated"
          => /\ IF last'.peer \in DOMAIN pending_kad_routing
                THEN /\ pending_kad_routing' = Remove(pending_kad_routing, last'.peer)
                     /\ chan'[pending_kad_routing[last'.peer]].n
                            = chan[pending_kad_routing[last'.peer]].n + 1
                     /\ chan'[pending_kad_routing[last'.peer]].val = "Ok"
                     /\ \A ch \in ChanIds \ {pending_kad_routing[last'.peer]} :
                            chan'[ch] = chan[ch]
                ELSE UNCHANGED <<pending_kad_routing, chan>>
             /\ UNCHANGED <<pending_kad_queries, pending_swarm_events, is_startup_done>>]_vars

\* the entry of one peer was completed while the entry of another is pending
C26_Witness ==
    /\ last.kind = "RoutingUpdated"
    /\ last.ch # NoChan
    /\ chan[last.ch].val = "Ok"
    /\ last.peer \notin DOMAIN pending_kad_routing
    /\ \E q \in DOMAIN pending_kad_routing : chan[pending_kad_routing[q]] = NewChan

\* C21: a step that handles a command handles the one at the head of the
\* queue, which was sent before every command still queued, and takes it from
\* the queue in that same step; the queue holds the commands in the order of
\* their sends and changes only by a send or by the handling of its head; a
\* send or a dropped call changes no engine state
C21_CommandsInOrder ==
    [][/\ last'.kind \in CommandKinds
             => /\ command_queue # <<>>
                /\ last'.ch = Head(command_queue).ch
                /\ last'.kind = Head(command_queue).kind
                /\ command_queue' = Tail(command_queue)
                /\ \A i \in DOMAIN command_queue' : command_queue'[i].ch[2] > last'.ch[2]
       /\ \A i, j \in DOMAIN command_queue' :
             i < j => command_queue'[i].ch[2] < command_queue'[j].ch[2]
       /\ command_queue' # command_queue
             => \/ last'.kind \in CommandKinds
                \/ /\ last'.kind = "send_command"
                   /\ Len(command_queue') = Len(command_queue) + 1
                   /\ SubSeq(command_queue', 1, Len(command_queue)) = command_queue
       /\ last'.kind \in {"send_command", "drop_receiver"} => UNCHANGED engine]_vars

\* the command sent first was handled while the one sent second was queued
C21_Witness ==
    /\ last.kind \in CommandKinds
    /\ last.ch = <<Env, 1>>
    /\ command_queue # <<>>
    /\ Head(command_queue).ch = <<Env, 2>>

\* C22: with the receiver of the response dropped, the step that would answer
\* delivers nothing and has the effects it has for a waiting caller: the last
\* success event of a query removes the pending entry and sets
\* is_startup_done, an error event removes it, an inbound connection removes
\* the wait entry, a command is handled as ever; and the engine runs on
C22_DroppedReceiverSameEffects ==
    [][/\ running'
       /\ \A ch \in ChanIds :
             chan[ch].closed => (chan'[ch].n = chan[ch].n /\ chan'[ch].val = chan[ch].val)
       /\ (/\ last'.kind = "BootstrapOk"
           /\ last'.arg = "last"
           /\ last'.id \in DOMAIN pending_kad_queries
           /\ chan[pending_kad_queries[last'.id]].closed)
             => /\ pending_kad_queries' = Remove(pending_kad_queries, last'.id)
                /\ is_startup_done'
       /\ (/\ last'.kind = "BootstrapErr"
           /\ last'.id \in DOMAIN pending_kad_queries
           /\ chan[pending_kad_queries[last'.id]].closed)
             => /\ pending_kad_queries' = Remove(pending_kad_queries, last'.id)
                /\ UNCHANGED is_startup_done
       /\ (/\ last'.kind = "ConnectionEstablished"
           /\ last'.arg = "Listener"
           /\ LocalPeerId \in DOMAIN pending_swarm_events
           /\ chan[pending_swarm_events[LocalPeerId]].closed)
             => pending_swarm_events' = Remove(pending_swarm_events, LocalPeerId)
       /\ (last'.kind = "Bootstrap" /\ chan[last'.ch].closed)
             => IF BootstrapPossible(routing)
                THEN /\ queries' = queries \cup {next_query}
                     /\ pending_kad_queries' = Insert(pending_kad_queries, next_query, last'.ch)
                ELSE UNCHANGED <<queries, next_query, pending>>
       /\ (last'.kind = "WaitIncomingConnection" /\ chan[last'.ch].closed)
             => pending_swarm_events' = Insert(pending_swarm_events, LocalPeerId, last'.ch)
       /\ (last'.kind \in {"StartListening", "CountDHTPeers"} /\ chan[last'.ch].closed)
             => UNCHANGED engine]_vars

\* the query of a caller that had gone has completed: nothing was delivered,
\* the entry is removed, the startup is done and the engine runs
C22_Witness ==
    /\ last.kind = "BootstrapOk"
    /\ last.arg = "last"
    /\ last.ch # NoChan
    /\ chan[last.ch].closed
    /\ chan[last.ch].n = 0
    /\ last.id \notin DOMAIN pending_kad_queries
    /\ is_startup_done
    /\ running

C32_NetworkNameNeverFails ==
    (call.fn = "network_name" /\ call.done)
        => /\ ~call.panic
           /\ call.val = <<Network(call.arg), SubSeq(call.arg, 1, 6)>>
           /\ Network(call.arg) \in {"hex", "turing", "local", "other"}
           /\ call.arg = DefaultGenesisHash => Network(call.arg) = "local"

\* C33 (as claimed): is_supported returns true exactly for the versions that
\* are at least the minimum supported version in the order of versions, also
\* for versions with fewer or more components than the minimum has
C33_SupportedIffAtLeastMinimum ==
    (call.fn = "is_supported" /\ call.done)
        => call.val = <<VersionAtLeastMinimum(call.arg)>>

====
